---- MODULE Spec2Model ----
(***************************************************************************)
(* The reader thread of mksquashfs (squashfs-tools/reader.c): the walker   *)
(* (reader, reader_scan), the Block Reader (reader_read_file), the Process *)
(* Reader (reader_read_process), the fragment classifier (is_fragment) and *)
(* the dispatcher (put_file_buffer).                                       *)
(*                                                                         *)
(* The reader is one thread; its position in the code is pc, named after   *)
(* the labels of the source where there are any (again, restat, read_err,  *)
(* read_err2).  The environment is the main thread that sends the start    *)
(* signal, a concurrent writer that changes the size of the file being     *)
(* read, the generator process of a pseudo file, and I/O faults.           *)
(*                                                                         *)
(* What the reader puts on the downstream queues is kept as the history    *)
(* handoff, one record per queue_put / seq_queue_put, for the call of      *)
(* reader_read_file or reader_read_process in progress; order keeps the    *)
(* sequence numbers of all buffers handed downstream in the whole run.     *)
(*                                                                         *)
(* The noD tag copied to each buffer (lines 112, 206) is read by no        *)
(* decision of this file and is left out of the buffer record.             *)
(***************************************************************************)
EXTENDS Integers, Sequences, FiniteSets, TLC

\* ------------------------------------------------------------------ bounds

\* largest size (in bytes) the file on disk takes
MaxSize == 4
\* largest total output (in bytes) of a generator process
MaxGen == 3
\* how many times the concurrent writer changes a file's size in one run
MaxWrites == 2
\* how many I/O faults (open, read, fstat, spawn, wait) happen in one run
MaxFaults == 1
\* highest priority of the priority table (65535 in the source, line 321)
MaxPriority == 2

\* ------------------------------------------------------- program constants

\* block_size is 1 << block_log (line 193 shifts by block_log)
block_log == 1
block_size == 2 ^ block_log

\* values a field of a buffer holds when the reader never wrote it: the
\* buffer comes back from the pool with whatever its last user left
StaleValues == {-1, 0, 1}

VARIABLES
    sorted,          \* the traversal mode (line 314)
    noF,             \* the process-wide fragment-compression tag (line 66)
    rootdir,         \* the directory the main thread hands to the reader
    quiet,           \* nothing interferes in this run: no writer, no I/O fault
    inode,           \* inode name -> struct inode_info
    disk,            \* regular file not read yet -> its size on disk now
    to_reader,       \* the start-signal queue
    started,         \* the main thread has sent the start signal
    seq,             \* static int seq (line 94)
    pc,              \* position of the reader thread
    stack,           \* reader_scan's activation records: <<dir, next entry>>
    prio,            \* the priority loop's i and entry (lines 321-323)
    dir_ent,         \* the entry reader_read_file / reader_read_process works on
    read_size, blocks, bytes,   \* locals of reader_read_file / _process
    file,            \* the open descriptor: kind, offset, end-of-stream seen
    file_buffer, prev_buffer,   \* the buffers the reader holds
    nbuf,            \* history: buffers acquired from the pool in this call
    released,        \* history: buffers given back by cache_block_put in this call
    writes, faults,  \* what the environment has done so far
    handoff,         \* history: the puts of the call in progress, in order
    order,           \* history: sequence numbers handed downstream, in order
    visit,           \* history: the call in progress
    past,            \* history: the inodes of the earlier calls, with outcome
    att              \* history: the current attempt of reader_read_file

cfg == <<sorted, noF, rootdir, quiet>>
queues == <<handoff, order>>
walker == <<stack, prio>>
locals == <<read_size, blocks, bytes, file>>
buffers == <<file_buffer, prev_buffer, nbuf, released>>
vars == <<sorted, noF, rootdir, quiet, inode, disk, to_reader, started, seq, pc, stack, prio,
          dir_ent, read_size, blocks, bytes, file, file_buffer, prev_buffer,
          nbuf, released, writes, faults, handoff, order, visit, past, att>>

\* ----------------------------------------------------------------- helpers

Min(a, b) == IF a < b THEN a ELSE b
Max(a, b) == IF a > b THEN a ELSE b

RECURSIVE BitAnd(_, _)
\* the C operator & on non-negative integers
BitAnd(a, b) ==
    IF a = 0 \/ b = 0 THEN 0
    ELSE (a % 2) * (b % 2) + 2 * BitAnd(a \div 2, b \div 2)

\* the C operator >> on non-negative integers
ShiftRight(a, n) == a \div (2 ^ n)

\* ------------------------------------------------------------ the source tree

\* the directory tree of tree mode: each directory's list of entries, every
\* entry named by the inode it references (two entries with one name are
\* hard links to one struct inode_info)
DirList(d) ==
    CASE d = "root"   -> <<"alias", "fileA", "subdir", "symlink">>
      [] d = "subdir" -> <<"pseudo", "fileA", "pseudo">>
      [] d = "small"  -> <<"fileA", "pseudo">>
      [] OTHER        -> <<>>

\* the priority table of priority mode
priority_list(i) ==
    CASE i = MaxPriority -> <<"fileB">>
      [] i = 0           -> <<"fileA", "fileB">>
      [] OTHER           -> <<>>

RegularFiles == {"fileA", "fileB"}

RECURSIVE Range(_)
Range(s) == IF s = <<>> THEN {} ELSE {Head(s)} \cup Range(Tail(s))

RECURSIVE TreeInodes(_)
\* the inodes of the tree under directory d
TreeInodes(d) ==
    Range(DirList(d)) \cup
    UNION { TreeInodes(e) : e \in {x \in Range(DirList(d)) : DirList(x) # <<>>} }

\* the inodes of the priority table
SortedInodes == UNION { Range(priority_list(i)) : i \in 0 .. MaxPriority }

\* struct inode_info as the tree builder leaves it
NewInode(name, size, flags) ==
    [ st_size |-> IF name \in RegularFiles THEN size ELSE 0,
      st_mode |-> CASE name \in {"alias", "subdir"} -> "S_IFDIR"
                    [] name = "symlink" -> "S_IFLNK"
                    [] OTHER -> "S_IFREG",
      root_entry |-> (name = "alias"),
      pseudo_process |-> (name = "pseudo"),
      read |-> FALSE,
      noF |-> flags.noF,
      no_fragments |-> flags.no_fragments,
      always_use_fragments |-> flags.always_use_fragments ]

IS_PSEUDO_PROCESS(ino) == ino.pseudo_process

\* -------------------------------------------------------------- the buffers

NoBuffer ==
    [id |-> 0, site |-> 0, sequence |-> 0, size |-> 0, file_size |-> 0,
     error |-> 0, fragment |-> FALSE, unwritten |-> {}]

\* cache_get_nohash(reader_buffer): a buffer of the pool; site is the line of
\* the call.  The reader has written none of its fields yet: unwritten names
\* the fields that still hold what the buffer's last user left in them
cache_get_nohash(site) ==
    [id |-> nbuf + 1, site |-> site, sequence |-> 0, size |-> 0,
     file_size |-> 0, error |-> 0, fragment |-> FALSE,
     unwritten |-> {"size", "file_size", "fragment"}]

\* the buffers a consumer may see when it is handed b: a field the reader
\* never wrote (it stays in unwritten) holds any stale value
Handed(b) ==
    { [b EXCEPT !.size = sz, !.file_size = fs, !.fragment = fr] :
        sz \in (IF "size" \in b.unwritten THEN StaleValues ELSE {b.size}),
        fs \in (IF "file_size" \in b.unwritten THEN StaleValues
                ELSE {b.file_size}),
        fr \in (IF "fragment" \in b.unwritten THEN BOOLEAN
                ELSE {b.fragment}) }

\* read_bytes(file, buffer, n) on a regular file of `size` bytes at offset off
read_bytes(size, off, n) == Min(n, Max(0, size - off))

\* an open descriptor / no descriptor
Closed == [kind |-> "none", off |-> 0, eof |-> FALSE]
Opened(kind) == [kind |-> kind, off |-> 0, eof |-> FALSE]

\* -------------------------------------------------- the fragment classifier

\* the classifier taking a file of exactly one block for a fragment
is_fragment_UpToBlock(ino) ==
    LET file_size == ino.st_size IN
    IF ino.noF # noF THEN FALSE
    ELSE /\ ~ino.no_fragments
         /\ file_size # 0
         /\ \/ file_size <= block_size
            \/ /\ ino.always_use_fragments
               /\ BitAnd(file_size, block_size - 1) # 0

\* is_fragment (lines 58-71)
is_fragment(ino) ==
    LET file_size == ino.st_size IN
    IF ino.noF # noF THEN FALSE
    ELSE /\ ~ino.no_fragments
         /\ file_size # 0
         /\ \/ file_size < block_size
            \/ /\ ino.always_use_fragments
               /\ BitAnd(file_size, block_size - 1) # 0

\* ------------------------------------------------------------ the dispatcher

\* the dispatcher's error route leaving the fragment flag as it finds it
put_file_buffer_KeepFragment(b) ==
    IF b.error # 0 \/ b.file_size = 0 THEN
        << [queue |-> "to_main", buf |-> b] >>
    ELSE IF b.fragment THEN
        << [queue |-> "to_process_frag", buf |-> b] >>
    ELSE
        << [queue |-> "to_deflate", buf |-> b] >>

\* the dispatcher without its empty-file route
put_file_buffer_NoEmptyRoute(b) ==
    IF b.error # 0 THEN
        << [queue |-> "to_main", buf |-> [b EXCEPT !.fragment = FALSE]] >>
    ELSE IF b.fragment THEN
        << [queue |-> "to_process_frag", buf |-> b] >>
    ELSE
        << [queue |-> "to_deflate", buf |-> b] >>

\* the dispatcher without its error route
put_file_buffer_NoErrorRoute(b) ==
    IF b.file_size = 0 THEN
        << [queue |-> "to_main", buf |-> b] >>
    ELSE IF b.fragment THEN
        << [queue |-> "to_process_frag", buf |-> b] >>
    ELSE
        << [queue |-> "to_deflate", buf |-> b] >>

\* put_file_buffer (lines 74-91): the puts it makes, each a queue and the
\* buffer as it is put there
put_file_buffer(b) ==
    IF b.error # 0 THEN
        << [queue |-> "to_main", buf |-> [b EXCEPT !.fragment = FALSE]] >>
    ELSE IF b.file_size = 0 THEN
        << [queue |-> "to_main", buf |-> b] >>
    ELSE IF b.fragment THEN
        << [queue |-> "to_process_frag", buf |-> b] >>
    ELSE
        << [queue |-> "to_deflate", buf |-> b] >>

\* a call of put_file_buffer, recorded in the history: given is the buffer as
\* the caller passed it, attempt and rsize the attempt it was read in
Forward(b) ==
    /\ handoff' = handoff \o
          [k \in 1 .. Len(put_file_buffer(b)) |->
              [queue |-> put_file_buffer(b)[k].queue,
               buf |-> put_file_buffer(b)[k].buf,
               given |-> b, call |-> Len(order) + 1,
               attempt |-> att.n, rsize |-> read_size]]
    /\ order' = Append(order, b.sequence)

\* ---------------------------------------------------------------- history

NewVisit(name, reader) ==
    [ino |-> name, reader |-> reader, size0 |-> inode[name].st_size,
     revisit |-> (\E p \in past : p.ino = name),
     changed |-> FALSE, faulted |-> FALSE, exit_failed |-> FALSE,
     outcome |-> "running", probes |-> 0, eof_at |-> -1, eof_disk |-> -1,
     total |-> 0, writes0 |-> writes, nth |-> visit.nth + 1]

NoVisit ==
    [ino |-> "none", reader |-> "none", size0 |-> 0, revisit |-> FALSE,
     changed |-> FALSE, faulted |-> FALSE, exit_failed |-> FALSE,
     outcome |-> "none", probes |-> 0, eof_at |-> -1, eof_disk |-> -1,
     total |-> 0, writes0 |-> 0, nth |-> 0]

NoAttempt == [n |-> 0, open_size |-> 0, stable |-> TRUE, faulted |-> FALSE]

Noted(v, field, value) == [v EXCEPT ![field] = value]
Note(field, value) == Noted(visit, field, value)

\* the call in progress returns
Finish(v, outcome) ==
    /\ visit' = Noted(v, "outcome", outcome)
    /\ past' = past \cup {[ino |-> v.ino, outcome |-> outcome,
                           exit_failed |-> v.exit_failed,
                           puts |-> Len(handoff'), nth |-> v.nth,
                           first |-> Len(order') - Len(handoff')]}

\* the file has been read: the reader never looks at it again (line 186)
Forget(name) == [n \in DOMAIN disk \ {name} |-> disk[n]]

\* a call begins
Begin(name, reader) ==
    /\ dir_ent' = name
    /\ visit' = NewVisit(name, reader)
    /\ handoff' = <<>>
    /\ nbuf' = 0
    /\ released' = <<>>
    /\ att' = NoAttempt

\* ------------------------------------------------------------------- Init

Flags == [noF : BOOLEAN, no_fragments : BOOLEAN, always_use_fragments : BOOLEAN]

\* the flags of the runs in which the environment interferes
UsualFlags == [noF |-> FALSE, no_fragments |-> FALSE, always_use_fragments |-> TRUE]

\* the inode table of a run: every regular file with the size the tree
\* builder's stat saw, which is its size on disk when the run begins
Built(names, size, flags) ==
    /\ inode = [n \in names |-> 
                  NewInode(n, IF n \in RegularFiles THEN size[n] ELSE 0, flags)]
    /\ disk = [n \in names \cap RegularFiles |-> size[n]]

\* A run is one of: the whole tree in tree mode, or the priority table in
\* priority mode, both with a writer and I/O faults at work and the usual
\* flags; or a small tree read undisturbed, with any flags.  In priority
\* mode, where two files are read, the writer has one change fewer to make.
Init ==
    /\ \E size \in [RegularFiles -> 0 .. MaxSize] :
         \/ /\ sorted = FALSE /\ rootdir = "root" /\ quiet = FALSE
            /\ noF = FALSE
            /\ writes = 0
            /\ Built(TreeInodes("root"), size, UsualFlags)
         \/ /\ sorted = TRUE /\ rootdir = "root" /\ quiet = FALSE
            /\ noF = FALSE
            /\ writes = 1
            /\ Built(SortedInodes, size, UsualFlags)
         \/ /\ sorted = FALSE /\ rootdir = "small" /\ quiet = TRUE
            /\ noF \in BOOLEAN
            /\ writes = 0
            /\ \E flags \in Flags : Built(TreeInodes("small"), size, flags)
    /\ to_reader = <<>>
    /\ started = FALSE
    /\ seq = 0
    /\ pc = "reader"
    /\ stack = <<>>
    /\ prio = [i |-> 0, entry |-> 1]
    /\ dir_ent = "none"
    /\ read_size = 0
    /\ blocks = 0
    /\ bytes = 0
    /\ file = Closed
    /\ file_buffer = NoBuffer
    /\ prev_buffer = NoBuffer
    /\ nbuf = 0
    /\ released = <<>>
    /\ faults = 0
    /\ handoff = <<>>
    /\ order = <<>>
    /\ visit = NoVisit
    /\ past = {}
    /\ att = NoAttempt

\* ------------------------------------------------------- the environment

\* the main thread puts the root directory on to_reader
SendStart ==
    /\ ~started
    /\ started' = TRUE
    /\ to_reader' = Append(to_reader, rootdir)
    /\ UNCHANGED <<cfg, inode, disk, queues, seq, pc, walker, dir_ent, locals,
                   buffers, writes, faults, visit, past, att>>

\* one more I/O fault may happen
CanFault == ~quiet /\ faults < MaxFaults

InReadFile == pc \in {"again", "rf_read", "rf_probe", "rf_done", "restat"}

\* another process changes the size of the file the reader is reading, just
\* before the reader's next system call on it (open, read, fstat) or before
\* the terminal buffer is forwarded.  A change made before the reader reaches
\* the file is the same, to the reader, as one made just before the open.
FileWrite ==
    /\ InReadFile
    /\ ~quiet
    /\ writes < MaxWrites
    /\ writes' = writes + 1
    /\ \E n \in 0 .. MaxSize :
         /\ n # disk[dir_ent]
         /\ disk' = [disk EXCEPT ![dir_ent] = n]
    /\ visit' = Note("changed", TRUE)
    /\ att' = [att EXCEPT !.stable = IF pc = "again" THEN @ ELSE FALSE]
    /\ UNCHANGED <<cfg, inode, to_reader, started, queues, seq, pc, walker,
                   dir_ent, locals, buffers, faults, past>>

\* ------------------------------------------------------------- the walker

\* the reader picks the mode without waiting for the start signal
reader_start_NoWait ==
    /\ pc = "reader"
    /\ IF ~sorted
         THEN /\ pc' = "scan"
              /\ stack' = <<[dir |-> rootdir, idx |-> 1]>>
              /\ UNCHANGED prio
         ELSE /\ pc' = "prio"
              /\ prio' = [i |-> MaxPriority, entry |-> 1]
              /\ UNCHANGED stack
    /\ UNCHANGED <<cfg, inode, disk, to_reader, started, queues, seq, dir_ent,
                   locals, buffers, writes, faults, visit, past, att>>

\* reader (lines 312-320): wait for the start signal, then pick the mode
reader_start ==
    /\ pc = "reader"
    /\ to_reader # <<>>
    /\ to_reader' = Tail(to_reader)
    /\ IF ~sorted
         THEN /\ pc' = "scan"
              /\ stack' = <<[dir |-> Head(to_reader), idx |-> 1]>>
              /\ UNCHANGED prio
         ELSE /\ pc' = "prio"
              /\ prio' = [i |-> MaxPriority, entry |-> 1]
              /\ UNCHANGED stack
    /\ UNCHANGED <<cfg, inode, disk, started, queues, seq, dir_ent, locals,
                   buffers, writes, faults, visit, past, att>>

Top == stack[Len(stack)]
AtEnd == Top.idx > Len(DirList(Top.dir))
Entry == DirList(Top.dir)[Top.idx]
Advance == [stack EXCEPT ![Len(stack)].idx = @ + 1]

\* a failed read ends the traversal
CallerUnlessFailed ==
    IF pc \in {"read_err", "read_err2", "rp_read_err"} THEN "exit"
    ELSE IF sorted THEN "prio" ELSE "scan"

\* where a file reader returns to
Caller == IF sorted THEN "prio" ELSE "scan"

\* reader_scan (line 290): the list is exhausted, return to the caller
scan_return ==
    /\ pc = "scan"
    /\ AtEnd
    /\ stack' = SubSeq(stack, 1, Len(stack) - 1)
    /\ pc' = IF Len(stack) = 1 THEN "exit" ELSE "scan"
    /\ UNCHANGED <<cfg, inode, disk, to_reader, started, queues, seq, prio,
                   dir_ent, locals, buffers, writes, faults, visit, past, att>>

\* reader_scan (lines 292-293): a root-alias entry is skipped
scan_root_entry ==
    /\ pc = "scan"
    /\ ~AtEnd
    /\ inode[Entry].root_entry
    /\ stack' = Advance
    /\ UNCHANGED <<cfg, inode, disk, to_reader, started, queues, seq, pc, prio,
                   dir_ent, locals, buffers, writes, faults, visit, past, att>>

\* reader_scan (lines 295-298): a pseudo-process entry goes to the Process Reader
scan_process ==
    /\ pc = "scan"
    /\ ~AtEnd
    /\ ~inode[Entry].root_entry
    /\ IS_PSEUDO_PROCESS(inode[Entry])
    /\ stack' = Advance
    /\ pc' = "rp_exec"
    /\ Begin(Entry, "process")
    /\ UNCHANGED <<cfg, inode, disk, to_reader, started, order, past, seq, prio,
                   locals, file_buffer, prev_buffer, writes, faults>>

\* reader_scan (lines 300-303): a regular file goes to the Block Reader
scan_file ==
    /\ pc = "scan"
    /\ ~AtEnd
    /\ ~inode[Entry].root_entry
    /\ ~IS_PSEUDO_PROCESS(inode[Entry])
    /\ inode[Entry].st_mode = "S_IFREG"
    /\ stack' = Advance
    /\ pc' = "rf_entry"
    /\ Begin(Entry, "file")
    /\ UNCHANGED <<cfg, inode, disk, to_reader, started, order, past, seq, prio,
                   locals, file_buffer, prev_buffer, writes, faults>>

\* a subdirectory is passed over
scan_dir_NoRecursion ==
    /\ pc = "scan"
    /\ ~AtEnd
    /\ ~inode[Entry].root_entry
    /\ ~IS_PSEUDO_PROCESS(inode[Entry])
    /\ inode[Entry].st_mode = "S_IFDIR"
    /\ stack' = Advance
    /\ UNCHANGED <<cfg, inode, disk, to_reader, started, queues, seq, pc, prio,
                   dir_ent, locals, buffers, writes, faults, visit, past, att>>

\* reader_scan (lines 304-306): recursion into a subdirectory
scan_dir ==
    /\ pc = "scan"
    /\ ~AtEnd
    /\ ~inode[Entry].root_entry
    /\ ~IS_PSEUDO_PROCESS(inode[Entry])
    /\ inode[Entry].st_mode = "S_IFDIR"
    /\ stack' = Append(Advance, [dir |-> Entry, idx |-> 1])
    /\ UNCHANGED <<cfg, inode, disk, to_reader, started, queues, seq, pc, prio,
                   dir_ent, locals, buffers, writes, faults, visit, past, att>>

\* reader_scan (lines 300-307): no case of the switch matches
scan_other ==
    /\ pc = "scan"
    /\ ~AtEnd
    /\ ~inode[Entry].root_entry
    /\ ~IS_PSEUDO_PROCESS(inode[Entry])
    /\ inode[Entry].st_mode \notin {"S_IFREG", "S_IFDIR"}
    /\ stack' = Advance
    /\ UNCHANGED <<cfg, inode, disk, to_reader, started, queues, seq, pc, prio,
                   dir_ent, locals, buffers, writes, faults, visit, past, att>>

\* the entries of one priority are taken from the end of the list
prio_file_LastFirst ==
    /\ pc = "prio"
    /\ prio.entry <= Len(priority_list(prio.i))
    /\ prio' = [prio EXCEPT !.entry = @ + 1]
    /\ pc' = "rf_entry"
    /\ Begin(priority_list(prio.i)[Len(priority_list(prio.i)) + 1 - prio.entry],
             "file")
    /\ UNCHANGED <<cfg, inode, disk, to_reader, started, order, past, seq, stack,
                   locals, file_buffer, prev_buffer, writes, faults>>

\* reader (lines 321-324): the next entry of the current priority's list
prio_file ==
    /\ pc = "prio"
    /\ prio.entry <= Len(priority_list(prio.i))
    /\ prio' = [prio EXCEPT !.entry = @ + 1]
    /\ pc' = "rf_entry"
    /\ Begin(priority_list(prio.i)[prio.entry], "file")
    /\ UNCHANGED <<cfg, inode, disk, to_reader, started, order, past, seq, stack,
                   locals, file_buffer, prev_buffer, writes, faults>>

\* reader (line 321): the list is exhausted, i-- ; the loop ends below 0
prio_next ==
    /\ pc = "prio"
    /\ prio.entry > Len(priority_list(prio.i))
    /\ IF prio.i - 1 >= 0
         THEN prio' = [i |-> prio.i - 1, entry |-> 1] /\ pc' = "prio"
         ELSE prio' = [i |-> 0, entry |-> 1] /\ pc' = "exit"
    /\ UNCHANGED <<cfg, inode, disk, to_reader, started, queues, seq, stack,
                   dir_ent, locals, buffers, writes, faults, visit, past, att>>

\* --------------------------------------------- reader_read_file (178-283)

\* the flag is left as it is
MarkReadSkipped(ino) == ino

\* line 189
MarkRead(ino) == [ino EXCEPT !.read = TRUE]

\* the block count rounded down
ExpectedBlocksFloor(size) == ShiftRight(size, block_log)

\* line 193
ExpectedBlocks(size) == ShiftRight(size + block_size - 1, block_log)

\* only the last block carries the size, the others carry -1
LoopBufferTailOnly(b) ==
    [b EXCEPT !.file_size = IF blocks > 1 THEN -1 ELSE read_size,
              !.sequence = seq, !.error = 0, !.unwritten = @ \ {"file_size"}]

\* lines 204-207: what the loop writes into the buffer it acquired
LoopBuffer(b) ==
    [b EXCEPT !.file_size = read_size, !.sequence = seq, !.error = 0,
              !.unwritten = @ \ {"file_size"}]

\* no probe is ever made
NeedsProbeNever(size) == FALSE

\* line 239: the size is a nonzero multiple of the block size
NeedsProbe(size) == size # 0 /\ size % block_size = 0

\* only growth counts as a change
SizeGrew(size, st_size) == size < st_size

\* whatever the fresh stat says, the read is tried again
SizeAlwaysChanged(size, st_size) == TRUE

\* line 271: the fresh stat differs from the size just tried
SizeChanged(size, st_size) == size # st_size

\* the failure is marked as a content-changed-retry
HardMarkAsRetry(b) == [b EXCEPT !.error = 2]

\* lines 173, 281: file_buffer->error = TRUE
HardMark(b) == [b EXCEPT !.error = 1]

\* the abandoned attempt's buffer is marked as a hard failure
RetryMarkHard(b) == [b EXCEPT !.error = 1]

\* line 274: the buffer at hand is marked content-changed-retry
RetryMark(b) == [b EXCEPT !.error = 2]

\* lines 186-187: the inode was read already
rf_already_read ==
    /\ pc = "rf_entry"
    /\ inode[dir_ent].read
    /\ pc' = Caller
    /\ UNCHANGED <<cfg, inode, disk, to_reader, started, queues, seq, walker,
                   dir_ent, locals, buffers, writes, faults, att>>
    /\ Finish(visit, "skipped")

\* line 189
rf_mark_read ==
    /\ pc = "rf_entry"
    /\ ~inode[dir_ent].read
    /\ inode' = [inode EXCEPT ![dir_ent] = MarkRead(@)]
    /\ pc' = "again"
    /\ UNCHANGED <<cfg, disk, to_reader, started, queues, seq, walker, dir_ent,
                   locals, buffers, writes, faults, visit, past, att>>

\* lines 190-195: again: the locals are set and the file is opened
again_open ==
    /\ pc = "again"
    /\ bytes' = 0
    /\ read_size' = inode[dir_ent].st_size
    /\ blocks' = ExpectedBlocks(inode[dir_ent].st_size)
    /\ file' = Opened("file")
    /\ pc' = "rf_get"
    /\ att' = [n |-> att.n + 1, open_size |-> disk[dir_ent], stable |-> TRUE,
               faulted |-> FALSE]
    /\ visit' = Noted(Noted(visit, "eof_at", -1), "probes", 0)
    /\ UNCHANGED <<past, cfg, inode, disk, to_reader, started, queues, seq, walker,
                   dir_ent, buffers, writes, faults>>

\* lines 190-196: again: open() returns -1
again_open_fails ==
    /\ pc = "again"
    /\ CanFault
    /\ faults' = faults + 1
    /\ bytes' = 0
    /\ read_size' = inode[dir_ent].st_size
    /\ blocks' = ExpectedBlocks(inode[dir_ent].st_size)
    /\ pc' = "rf_open_failed"
    /\ att' = [n |-> att.n + 1, open_size |-> disk[dir_ent], stable |-> TRUE,
               faulted |-> TRUE]
    /\ visit' = Note("faulted", TRUE)
    /\ UNCHANGED <<past, cfg, inode, disk, to_reader, started, queues, seq, walker,
                   dir_ent, file, buffers, writes>>

\* lines 197-199: the buffer of the open error
rf_open_failed ==
    /\ pc = "rf_open_failed"
    /\ file_buffer' = [cache_get_nohash(197) EXCEPT !.sequence = seq]
    /\ nbuf' = nbuf + 1
    /\ seq' = seq + 1
    /\ pc' = "read_err2"
    /\ UNCHANGED <<cfg, inode, disk, to_reader, started, queues, walker,
                   dir_ent, locals, prev_buffer, released, writes, faults,
                   visit, past, att>>

\* lines 203-207: a buffer is acquired and numbered
rf_get ==
    /\ pc = "rf_get"
    /\ file_buffer' = LoopBuffer(cache_get_nohash(203))
    /\ nbuf' = nbuf + 1
    /\ seq' = seq + 1
    /\ pc' = "rf_read"
    /\ UNCHANGED <<cfg, inode, disk, to_reader, started, queues, walker,
                   dir_ent, locals, prev_buffer, released, writes, faults,
                   visit, past, att>>

\* lines 218-221: read_bytes returns -1
rf_read_fails ==
    /\ pc = "rf_read"
    /\ CanFault
    /\ faults' = faults + 1
    /\ file_buffer' = [file_buffer EXCEPT !.size = -1,
                                          !.unwritten = @ \ {"size"}]
    /\ pc' = "read_err"
    /\ visit' = Note("faulted", TRUE)
    /\ att' = [att EXCEPT !.faulted = TRUE]
    /\ UNCHANGED <<past, cfg, inode, disk, to_reader, started, queues, seq, walker,
                   dir_ent, locals, prev_buffer, nbuf, released, writes>>

\* lines 218-254: one block is read; a non-tail block is forwarded; after the
\* last block the total is compared with read_size
rf_read ==
    /\ pc = "rf_read"
    /\ LET byte == read_bytes(disk[dir_ent], file.off, block_size)
           fb == [file_buffer EXCEPT !.size = byte, !.unwritten = @ \ {"size"}]
           total == bytes + byte
           seen == IF byte < block_size
                     THEN Noted(Noted(visit, "eof_at", file.off + byte),
                                "eof_disk", disk[dir_ent])
                     ELSE visit
       IN  /\ bytes' = total
           /\ file' = [file EXCEPT !.off = @ + byte, !.eof = (byte < block_size)]
           /\ visit' = seen
           /\ IF blocks > 1
                THEN IF byte < block_size
                       THEN /\ pc' = "restat"
                            /\ file_buffer' = fb
                            /\ UNCHANGED <<blocks, queues>>
                       ELSE /\ Forward([fb EXCEPT !.fragment = FALSE,
                                                   !.unwritten = {}])
                            /\ file_buffer' = NoBuffer
                            /\ blocks' = blocks - 1
                            /\ pc' = "rf_get"
                ELSE /\ file_buffer' = fb
                     /\ blocks' = blocks - 1
                     /\ UNCHANGED queues
                     /\ pc' = IF read_size # total THEN "restat"
                              ELSE IF NeedsProbe(read_size) THEN "rf_probe"
                              ELSE "rf_done"
    /\ UNCHANGED <<past, cfg, inode, disk, to_reader, started, seq, walker, dir_ent,
                   read_size, prev_buffer, nbuf, released, writes, faults, att>>

\* lines 248-250: the probe's read_bytes returns -1
rf_probe_fails ==
    /\ pc = "rf_probe"
    /\ CanFault
    /\ faults' = faults + 1
    /\ pc' = "read_err"
    /\ visit' = Note("faulted", TRUE)
    /\ att' = [att EXCEPT !.faulted = TRUE]
    /\ UNCHANGED <<past, cfg, inode, disk, to_reader, started, queues, seq, walker,
                   dir_ent, locals, buffers, writes>>

\* lines 248-253: the 1-byte probe past the last block
rf_probe ==
    /\ pc = "rf_probe"
    /\ LET res == read_bytes(disk[dir_ent], file.off, 1)
           probed == Noted(visit, "probes", visit.probes + 1)
       IN  /\ file' = [file EXCEPT !.off = @ + res, !.eof = (res = 0)]
           /\ pc' = IF res # 0 THEN "restat" ELSE "rf_done"
           /\ visit' = IF res = 0
                        THEN Noted(Noted(probed, "eof_at", file.off),
                                   "eof_disk", disk[dir_ent])
                        ELSE probed
    /\ UNCHANGED <<past, cfg, inode, disk, to_reader, started, queues, seq, walker,
                   dir_ent, read_size, blocks, bytes, buffers, writes, faults,
                   att>>

\* lines 256-261: the terminal buffer is classified and forwarded
rf_done ==
    /\ pc = "rf_done"
    /\ Forward([file_buffer EXCEPT !.fragment = is_fragment(inode[dir_ent]),
                                   !.unwritten = {}])
    /\ file_buffer' = NoBuffer
    /\ file' = Closed
    /\ read_size' = 0
    /\ blocks' = 0
    /\ bytes' = 0
    /\ pc' = Caller
    /\ Finish(visit, "success")
    /\ disk' = Forget(dir_ent)
    /\ UNCHANGED <<cfg, inode, to_reader, started, seq, walker, dir_ent,
                   prev_buffer, nbuf, released, writes, faults, att>>

\* lines 264-269: restat: fstat returns -1
restat_fails ==
    /\ pc = "restat"
    /\ CanFault
    /\ faults' = faults + 1
    /\ pc' = "read_err"
    /\ visit' = Note("faulted", TRUE)
    /\ att' = [att EXCEPT !.faulted = TRUE]
    /\ UNCHANGED <<past, cfg, inode, disk, to_reader, started, queues, seq, walker,
                   dir_ent, locals, buffers, writes>>

\* lines 264-277: restat: the size is compared with a fresh stat
restat ==
    /\ pc = "restat"
    /\ LET buf2 == disk[dir_ent] IN
       IF SizeChanged(read_size, buf2)
         THEN /\ file' = Closed
              /\ inode' = [inode EXCEPT ![dir_ent].st_size = buf2]
              /\ \E b \in Handed(RetryMark(file_buffer)) : Forward(b)
              /\ file_buffer' = NoBuffer
              /\ pc' = "again"
         ELSE /\ pc' = "read_err"
              /\ UNCHANGED <<file, inode, queues, file_buffer>>
    /\ UNCHANGED <<cfg, disk, to_reader, started, seq, walker, dir_ent,
                   read_size, blocks, bytes, prev_buffer, nbuf, released,
                   writes, faults, visit, past, att>>

\* lines 278-283: read_err: the file is closed, the buffer is forwarded as a
\* hard failure
read_err ==
    /\ pc = "read_err"
    /\ \E b \in Handed(HardMark(file_buffer)) : Forward(b)
    /\ file_buffer' = NoBuffer
    /\ file' = Closed
    /\ read_size' = 0
    /\ blocks' = 0
    /\ bytes' = 0
    /\ pc' = Caller
    /\ Finish(visit, "failed")
    /\ disk' = Forget(dir_ent)
    /\ UNCHANGED <<cfg, inode, to_reader, started, seq, walker, dir_ent,
                   prev_buffer, nbuf, released, writes, faults, att>>

\* lines 280-283: read_err2: the same without a file to close
read_err2 ==
    /\ pc = "read_err2"
    /\ \E b \in Handed(HardMark(file_buffer)) : Forward(b)
    /\ file_buffer' = NoBuffer
    /\ read_size' = 0
    /\ blocks' = 0
    /\ bytes' = 0
    /\ pc' = Caller
    /\ Finish(visit, "failed")
    /\ disk' = Forget(dir_ent)
    /\ UNCHANGED <<cfg, inode, to_reader, started, seq, walker, dir_ent,
                   file, prev_buffer, nbuf, released, writes, faults, att>>

\* ------------------------------------------- reader_read_process (95-175)

\* the number of the buffer given back to the pool is not taken back
RollbackForgotten(s) == s

\* lines 157, 170: seq --
Rollback(s) == s - 1

\* the error is carried by the buffer just acquired, whatever was read before
ErrorBufferCurrent(prev, cur) == cur

\* lines 168-172: the buffer that carries the error: the last block read, if
\* there is one, else the buffer just acquired
ErrorBuffer(prev, cur) == IF prev # NoBuffer THEN prev ELSE cur

\* the buffer of the end-of-stream read is taken as the terminal buffer
TerminalBufferCurrent(prev, cur) == cur

\* lines 153-158: the terminal buffer: the last block read, if there is one,
\* else the buffer of the end-of-stream read
TerminalBuffer(prev, cur) == IF prev = NoBuffer THEN cur ELSE prev

\* lines 97-101: the generator is started
rp_exec ==
    /\ pc = "rp_exec"
    /\ bytes' = 0
    /\ prev_buffer' = NoBuffer
    /\ file' = Opened("pipe")
    /\ pc' = "rp_get"
    /\ UNCHANGED <<cfg, inode, disk, to_reader, started, queues, seq, walker,
                   dir_ent, read_size, blocks, file_buffer, nbuf, released,
                   writes, faults, visit, past, att>>

\* lines 101-103: pseudo_exec_file returns 0
rp_exec_fails ==
    /\ pc = "rp_exec"
    /\ CanFault
    /\ faults' = faults + 1
    /\ bytes' = 0
    /\ prev_buffer' = NoBuffer
    /\ pc' = "rp_spawn_failed"
    /\ visit' = Note("faulted", TRUE)
    /\ UNCHANGED <<past, cfg, inode, disk, to_reader, started, queues, seq, walker,
                   dir_ent, read_size, blocks, file, file_buffer, nbuf,
                   released, writes, att>>

\* lines 104-106: the buffer of the spawn failure
rp_spawn_failed ==
    /\ pc = "rp_spawn_failed"
    /\ file_buffer' = [cache_get_nohash(104) EXCEPT !.sequence = seq]
    /\ nbuf' = nbuf + 1
    /\ seq' = seq + 1
    /\ pc' = "rp_read_err"
    /\ UNCHANGED <<cfg, inode, disk, to_reader, started, queues, walker,
                   dir_ent, locals, prev_buffer, released, writes, faults,
                   visit, past, att>>

\* lines 110-112: a buffer is acquired and numbered
rp_get ==
    /\ pc = "rp_get"
    /\ file_buffer' = [cache_get_nohash(110) EXCEPT !.sequence = seq]
    /\ nbuf' = nbuf + 1
    /\ seq' = seq + 1
    /\ pc' = "rp_read"
    /\ UNCHANGED <<cfg, inode, disk, to_reader, started, queues, walker,
                   dir_ent, locals, prev_buffer, released, writes, faults,
                   visit, past, att>>

\* lines 114-116, 165-166: read_bytes returns -1: read_err2 closes the pipe
rp_read_fails ==
    /\ pc = "rp_read"
    /\ CanFault
    /\ faults' = faults + 1
    /\ file' = Closed
    /\ pc' = "rp_read_err"
    /\ visit' = Note("faulted", TRUE)
    /\ UNCHANGED <<past, cfg, inode, disk, to_reader, started, queues, seq, walker,
                   dir_ent, read_size, blocks, bytes, buffers, writes, att>>

\* the previous block is overwritten without being forwarded
rp_read_DropPrev ==
    /\ pc = "rp_read"
    /\ \E byte \in 0 .. block_size :
         /\ file.eof => byte = 0
         /\ bytes + byte <= MaxGen
         /\ LET fb == [file_buffer EXCEPT !.size = byte, !.file_size = -1,
                                          !.error = 0, !.fragment = FALSE,
                                          !.unwritten = {}]
            IN  /\ bytes' = bytes + byte
                /\ file' = [file EXCEPT !.off = @ + byte,
                                        !.eof = (byte < block_size)]
                /\ file_buffer' = IF byte = 0 THEN fb ELSE NoBuffer
                /\ prev_buffer' = IF byte = 0 THEN prev_buffer ELSE fb
                /\ pc' = IF byte = 0 THEN "rp_wait" ELSE "rp_get"
    /\ UNCHANGED <<cfg, inode, disk, to_reader, started, seq, walker, dir_ent,
                   read_size, blocks, nbuf, released, writes, faults, visit, past,
                   att, queues>>

\* lines 114-138: up to block_size bytes of the generator's output are read
\* (fewer only at the end of the stream); the previous block is forwarded
rp_read ==
    /\ pc = "rp_read"
    /\ \E byte \in 0 .. block_size :
         /\ file.eof => byte = 0
         /\ bytes + byte <= MaxGen
         /\ LET fb == [file_buffer EXCEPT !.size = byte, !.file_size = -1,
                                          !.error = 0, !.fragment = FALSE,
                                          !.unwritten = {}]
            IN  /\ bytes' = bytes + byte
                /\ file' = [file EXCEPT !.off = @ + byte,
                                        !.eof = (byte < block_size)]
                /\ IF byte = 0
                     THEN /\ file_buffer' = fb
                          /\ pc' = "rp_wait"
                          /\ UNCHANGED <<prev_buffer, queues>>
                     ELSE /\ IF prev_buffer # NoBuffer
                               THEN Forward(prev_buffer)
                               ELSE UNCHANGED queues
                          /\ prev_buffer' = fb
                          /\ file_buffer' = NoBuffer
                          /\ pc' = "rp_get"
    /\ UNCHANGED <<cfg, inode, disk, to_reader, started, seq, walker, dir_ent,
                   read_size, blocks, nbuf, released, writes, faults, visit, past,
                   att>>

\* lines 145-151: the size is stored; waitpid fails or the generator did not
\* exit with status 0
rp_wait_fails ==
    /\ pc = "rp_wait"
    /\ CanFault
    /\ faults' = faults + 1
    /\ inode' = [inode EXCEPT ![dir_ent].st_size = bytes]
    /\ file' = Closed
    /\ pc' = "rp_read_err"
    /\ visit' = Noted(Noted(visit, "faulted", TRUE), "exit_failed", TRUE)
    /\ UNCHANGED <<past, cfg, disk, to_reader, started, queues, seq, walker, dir_ent,
                   read_size, blocks, bytes, buffers, writes, att>>

\* lines 145-163: the size is stored, the generator exited with status 0, the
\* terminal buffer is classified and forwarded
rp_wait ==
    /\ pc = "rp_wait"
    /\ inode' = [inode EXCEPT ![dir_ent].st_size = bytes]
    /\ file' = Closed
    /\ LET last == TerminalBuffer(prev_buffer, file_buffer)
       IN  /\ IF prev_buffer = NoBuffer
                THEN UNCHANGED <<released, seq>>
                ELSE /\ released' = Append(released, file_buffer)
                     /\ seq' = Rollback(seq)
           /\ Forward([last EXCEPT !.file_size = bytes,
                                   !.fragment = is_fragment(inode'[dir_ent])])
    /\ file_buffer' = NoBuffer
    /\ prev_buffer' = NoBuffer
    /\ bytes' = 0
    /\ pc' = Caller
    /\ Finish(Noted(visit, "total", bytes), "success")
    /\ UNCHANGED <<cfg, disk, to_reader, started, walker, dir_ent, read_size,
                   blocks, nbuf, writes, faults, att>>

\* lines 167-175: read_err: the spare buffer goes back to the pool, the last
\* buffer is forwarded as a hard failure
rp_read_err ==
    /\ pc = "rp_read_err"
    /\ LET last == ErrorBuffer(prev_buffer, file_buffer)
       IN  /\ IF prev_buffer # NoBuffer
                THEN /\ released' = Append(released, file_buffer)
                     /\ seq' = Rollback(seq)
                ELSE UNCHANGED <<released, seq>>
           /\ \E b \in Handed(HardMark(last)) : Forward(b)
    /\ file_buffer' = NoBuffer
    /\ prev_buffer' = NoBuffer
    /\ bytes' = 0
    /\ file' = Closed
    /\ pc' = Caller
    /\ Finish(Noted(visit, "total", bytes), "failed")
    /\ UNCHANGED <<cfg, inode, disk, to_reader, started, walker, dir_ent,
                   read_size, blocks, nbuf, writes, faults, att>>

\* ------------------------------------------------------ the specification

Next ==
    \/ SendStart
    \/ FileWrite
    \/ reader_start
    \/ scan_return
    \/ scan_root_entry
    \/ scan_process
    \/ scan_file
    \/ scan_dir
    \/ scan_other
    \/ prio_file
    \/ prio_next
    \/ rf_already_read
    \/ rf_mark_read
    \/ again_open
    \/ again_open_fails
    \/ rf_open_failed
    \/ rf_get
    \/ rf_read_fails
    \/ rf_read
    \/ rf_probe_fails
    \/ rf_probe
    \/ rf_done
    \/ restat_fails
    \/ restat
    \/ read_err
    \/ read_err2
    \/ rp_exec
    \/ rp_exec_fails
    \/ rp_spawn_failed
    \/ rp_get
    \/ rp_read_fails
    \/ rp_read
    \/ rp_wait_fails
    \/ rp_wait
    \/ rp_read_err

Spec == Init /\ [][Next]_vars

\* The reader thread is scheduled, the main thread sends the start signal and
\* no system call, pool or queue blocks forever: some step is taken as long as
\* one is possible.  The writer and the faults are under no obligation.
FairSpec == Spec /\ WF_vars(Next)

\* ================================================================ claims

Last(s) == s[Len(s)]

\* the call in progress, or the last one, has returned after reading
Returned == visit.outcome \in {"success", "failed"}

\* ceil(n / d)
CeilDiv(n, d) == IF n % d = 0 THEN n \div d ELSE n \div d + 1

RECURSIVE Payload(_, _)
\* the payload bytes of the puts of attempt a in h
Payload(h, a) ==
    IF h = <<>> THEN 0
    ELSE (IF Head(h).attempt = a THEN Head(h).buf.size ELSE 0) + Payload(Tail(h), a)

\* C1: the sequence numbers of the buffers handed downstream, in handoff
\* order, are 0, 1, 2, ...: no gap, no repeat, none lower than an earlier one;
\* a number taken back by seq-- belonged to a buffer that went back to the
\* pool and was never handed downstream.
C1_SequenceContiguous ==
    /\ \A k \in 1 .. Len(order) : order[k] = k - 1
    /\ \A r \in 1 .. Len(released) : \A k \in 1 .. Len(handoff) :
          handoff[k].given.id # released[r].id

\* C1 witness: in tree mode, after the regular file, a pseudo file whose spare
\* buffer was given back (seq--) has been read to the end, and a buffer with a
\* hard failure is among those handed downstream.
C1_Witness ==
    /\ visit.reader = "process"
    /\ Returned
    /\ released # <<>>
    /\ Len(handoff) >= 2
    /\ Len(order) >= 4
    /\ \E p \in past : p.ino = "fileA" /\ p.outcome = "failed"

\* C2: a regular file of recorded size S whose size does not change during
\* the read and whose open, reads and fstat do not fail is read with success
\* and exactly max(1, ceil(S / block_size)) buffers are forwarded for it.
C2_BlockCount ==
    (visit.reader = "file" /\ Returned /\ ~visit.changed /\ ~visit.faulted) =>
        /\ visit.outcome = "success"
        /\ Len(handoff) = Max(1, CeilDiv(visit.size0, block_size))

\* C2 witness: an undisturbed file of a block and a half has been read and
\* two buffers were forwarded.
C2_Witness ==
    /\ visit.reader = "file"
    /\ Returned
    /\ ~visit.changed /\ ~visit.faulted
    /\ visit.size0 = block_size + 1
    /\ Len(handoff) = 2

\* the puts of the call that carry a file_size other than unknown (-1)
Concrete == {k \in 1 .. Len(handoff) : handoff[k].buf.file_size # -1}

\* C3 as stated: among the buffers forwarded for one file, regular or pseudo,
\* whatever the outcome, exactly one carries a concrete file_size and every
\* other one carries unknown.
C3_ExactlyOneConcrete ==
    (visit.reader \in {"file", "process"} /\ Returned) =>
        Cardinality(Concrete) = 1

\* C3 as the code has it: every buffer reader_read_file acquires in its read
\* loop carries, as file_size, the size recorded in the InodeInfo when its
\* attempt began (every buffer of a multi-block file, not only the last); the
\* file_size of the buffer of an open failure is never written; of the
\* buffers of a pseudo file only the last one of a successful read carries a
\* concrete file_size, the total number of bytes read, and every other one
\* carries unknown or, when the spawn or the first read failed, is the only
\* buffer of the file and its file_size was never written.
C3_FileSizeCarried ==
    \A k \in 1 .. Len(handoff) :
        LET h == handoff[k] IN
        /\ (visit.reader = "file" /\ h.given.site = 203) =>
              /\ "file_size" \notin h.buf.unwritten
              /\ h.buf.file_size = h.rsize
              /\ h.rsize >= 0
        /\ (visit.reader = "file" /\ h.given.site = 197) =>
              "file_size" \in h.buf.unwritten
        /\ visit.reader = "process" =>
              IF visit.outcome = "success" /\ k = Len(handoff)
                THEN h.buf.file_size = visit.total
                ELSE \/ h.buf.file_size = -1 /\ h.buf.unwritten = {}
                     \/ /\ "file_size" \in h.buf.unwritten
                        /\ h.buf.error = 1
                        /\ Len(handoff) = 1

\* C3 witness: an undisturbed regular file of two blocks has been read with
\* success and both buffers carry its size.
C3_Witness ==
    /\ visit.reader = "file"
    /\ visit.outcome = "success"
    /\ ~visit.changed
    /\ Len(handoff) = 2
    /\ \A k \in 1 .. 2 : handoff[k].buf.file_size = visit.size0

\* the queue the dispatcher's rules, taken in order, give buffer b
Route(b) ==
    IF b.error # 0 THEN "to_main"
    ELSE IF b.file_size = 0 THEN "to_main"
    ELSE IF b.fragment THEN "to_process_frag"
    ELSE "to_deflate"

\* C4: every call of put_file_buffer puts the buffer it is given on exactly
\* one queue, the one of the first matching rule (error, then file_size 0,
\* then fragment, else block compression); the buffer is put as given, but
\* for the fragment flag, cleared on the error route; and whatever the error,
\* file_size and fragment flag, exactly one put is made.
C4_Routing ==
    /\ \A k \in 1 .. Len(handoff) :
          LET h == handoff[k] IN
          /\ h.call = Len(order) - Len(handoff) + k
          /\ h.queue = Route(h.given)
          /\ h.buf = [h.given EXCEPT !.fragment = (h.given.error = 0 /\ @)]
    /\ \A e \in 0 .. 2 : \A fs \in -1 .. MaxSize : \A fr \in BOOLEAN :
          LET b == [NoBuffer EXCEPT !.error = e, !.file_size = fs,
                                    !.fragment = fr]
          IN  /\ Len(put_file_buffer(b)) = 1
              /\ put_file_buffer(b)[1].queue = Route(b)

\* C4 witness: one call of reader_read_file has forwarded a retry buffer to
\* the main queue, a full block to block compression and a tail to fragment
\* compression.
C4_Witness ==
    /\ visit.reader = "file"
    /\ visit.outcome = "success"
    /\ \E i, j, k \in 1 .. Len(handoff) :
          /\ handoff[i].queue = "to_main" /\ handoff[i].buf.error = 2
          /\ handoff[j].queue = "to_deflate"
          /\ handoff[k].queue = "to_process_frag" /\ handoff[k].buf.fragment

\* C5 as stated: a regular file whose size changes at any point between the
\* stat and the completion of its read is retried at least once: a retry
\* buffer is forwarded before the read ends in success or hard failure.
C5_AnyChangeRetried ==
    (visit.reader = "file" /\ Returned /\ visit.changed) =>
        \E k \in 1 .. Len(handoff) : handoff[k].buf.error = 2

\* C5 as the code has it: an attempt that opens the file at a size other than
\* the recorded one, during which the size does not change again and no open,
\* read or fstat fails, ends neither in success nor in a hard failure; and
\* whenever reader_read_file goes back to `again` it has just forwarded a
\* retry buffer, stored the new size and closed the file.
C5_ChangeSeenRetried ==
    /\ (pc \in {"rf_done", "read_err"}) =>
          ~(att.open_size # read_size /\ att.stable /\ ~att.faulted)
    /\ (pc = "again" /\ att.n >= 1) =>
          /\ Last(handoff).buf.error = 2
          /\ file = Closed
          /\ inode[dir_ent].st_size # read_size

\* C5 witness: a file that shrank before it was opened and then stayed as it
\* was is back at `again` with a retry buffer forwarded.
C5_Witness ==
    /\ pc = "again"
    /\ att.n = 1
    /\ att.open_size < read_size
    /\ att.stable /\ ~att.faulted
    /\ Last(handoff).buf.error = 2

\* C6: whenever reader_read_file ends in success, after any number of
\* retries, the size stored in the InodeInfo equals the terminal buffer's
\* file_size, equals the sum of the payload lengths of the buffers forwarded
\* in the final attempt and is the offset at which that attempt's reads met
\* end-of-stream, the file being no longer than that then; when the size is
\* a nonzero multiple of the block size, end-of-stream was met by the one
\* 1-byte probe, and otherwise no probe was made.
C6_SuccessSize ==
    (visit.reader = "file" /\ visit.outcome = "success") =>
        LET t == Last(handoff)
            S == inode[visit.ino].st_size
        IN  /\ t.buf.error = 0
            /\ t.buf.file_size = S
            /\ Payload(handoff, t.attempt) = S
            /\ visit.eof_at = S
            /\ visit.eof_disk \in 0 .. S
            /\ visit.probes = IF S # 0 /\ S % block_size = 0 THEN 1 ELSE 0

\* C6 witness: a file has been read with success on a second or later attempt
\* and its final size is a nonzero multiple of the block size, other than the
\* size first recorded.
C6_Witness ==
    /\ visit.reader = "file"
    /\ visit.outcome = "success"
    /\ Last(handoff).attempt >= 2
    /\ inode[visit.ino].st_size = 2 * block_size
    /\ inode[visit.ino].st_size # visit.size0
    /\ visit.probes = 1

\* C7 as stated: for every InodeInfo, regular or pseudo, a visit after the
\* first finds the read flag set and produces no buffer.
C7_EveryInodeReadOnce ==
    visit.revisit => (inode[visit.ino].read /\ handoff = <<>>)

\* C7 as the code has it: for every InodeInfo dispatched to reader_read_file
\* the read flag is set before the file is opened or a buffer is acquired and
\* stays set, and every visit after the first produces no buffer, opens no
\* file and acquires no buffer, also when the first visit ended in a hard
\* failure.  (reader_read_process neither tests nor sets the flag.)
C7_RegularReadOnce ==
    /\ \A p \in past : ~IS_PSEUDO_PROCESS(inode[p.ino]) => inode[p.ino].read
    /\ (visit.reader = "file" /\ (pc # "rf_entry" \/ visit.revisit)) =>
          inode[visit.ino].read
    /\ (visit.reader = "file" /\ visit.revisit) =>
          /\ visit.outcome \in {"running", "skipped"}
          /\ handoff = <<>>
          /\ nbuf = 0
          /\ file = Closed
    /\ \A n \in DOMAIN inode :
          (inode[n].read /\ ~\E p \in past : p.ino = n) =>
              visit.ino = n /\ visit.outcome = "running"

\* C7 witness: a second entry of a regular file whose first read ended in a
\* hard failure has been visited and skipped.
C7_Witness ==
    /\ visit.reader = "file"
    /\ visit.revisit
    /\ visit.outcome = "skipped"
    /\ handoff = <<>>
    /\ \E p \in past : p.ino = visit.ino /\ p.outcome = "failed" /\ p.puts >= 1

\* C8 as stated: a pseudo file whose generator exits with nonzero status
\* yields exactly one buffer, marked hard failure, and the InodeInfo's read
\* flag is set when reader_read_process returns.
C8_FailedGeneratorOneBuffer ==
    (visit.reader = "process" /\ visit.exit_failed /\ Returned) =>
        /\ Len(handoff) = 1
        /\ handoff[1].buf.error = 1
        /\ inode[visit.ino].read

\* C8 as the code has it: a pseudo file whose generator wrote N bytes and
\* exits with nonzero status yields max(1, ceil(N / block_size)) buffers, that
\* carry the N bytes; the last one, and only it, is marked hard failure; N is
\* stored as the inode's size; the read flag is left unset, and every entry
\* that references the InodeInfo runs the generator and yields buffers again.
C8_FailedGenerator ==
    /\ (visit.reader = "process" /\ visit.exit_failed /\ Returned) =>
          /\ visit.outcome = "failed"
          /\ Len(handoff) = Max(1, CeilDiv(visit.total, block_size))
          /\ \A k \in 1 .. Len(handoff) :
                handoff[k].buf.error = IF k = Len(handoff) THEN 1 ELSE 0
          /\ Payload(handoff, 0) = visit.total
          /\ inode[visit.ino].st_size = visit.total
    /\ (visit.reader = "process" /\ Returned) =>
          /\ Len(handoff) >= 1
          /\ ~inode[visit.ino].read

\* C8 witness: the generator of a pseudo file exited with nonzero status
\* after more than one block, which gave two buffers, and the second entry of
\* the same InodeInfo has run it again and yielded buffers.
C8_Witness ==
    /\ visit.reader = "process"
    /\ visit.revisit
    /\ Returned
    /\ Len(handoff) >= 1
    /\ \E p \in past : p.ino = visit.ino /\ p.exit_failed /\ p.puts = 2

\* the condition of C9 on the inode of the call, in arithmetic
Eligible(ino) ==
    /\ ino.noF = noF
    /\ ino.st_size # 0
    /\ \/ ino.st_size < block_size
       \/ ino.always_use_fragments /\ ino.st_size % block_size # 0

\* C9 as stated: the fragment flag of an error-free terminal buffer is true
\* iff the file's compression tag equals the process-wide one, its size is
\* nonzero and it is smaller than a block or, with always-use-fragments, not
\* a multiple of the block size; no other per-file setting matters.
C9_FragmentIffEligible ==
    (visit.outcome = "success") =>
        (Last(handoff).given.fragment <=> Eligible(inode[visit.ino]))

\* C9 as the code has it: the same, and the inode's no-fragments flag is not
\* set: a file with that flag is never a fragment.
C9_FragmentIffEligibleAndAllowed ==
    (visit.outcome = "success") =>
        /\ Last(handoff).given.error = 0
        /\ Last(handoff).given.fragment <=>
              (~inode[visit.ino].no_fragments /\ Eligible(inode[visit.ino]))

\* C9 witness: a file longer than a block, not a multiple of the block size,
\* has been read with always-use-fragments and its terminal buffer is a
\* fragment.
C9_Witness ==
    /\ visit.reader = "file"
    /\ visit.outcome = "success"
    /\ inode[visit.ino].st_size > block_size
    /\ inode[visit.ino].always_use_fragments
    /\ Last(handoff).given.fragment
    /\ Last(handoff).queue = "to_process_frag"

\* C10: a regular file of recorded size 0 that is still empty when read
\* yields exactly one buffer, with payload 0, file_size 0, no error and the
\* fragment flag off, put on the main queue; no 1-byte probe is made.
C10_EmptyFile ==
    (/\ visit.reader = "file" /\ Returned
     /\ visit.size0 = 0 /\ ~visit.changed /\ ~visit.faulted) =>
        /\ Len(handoff) = 1
        /\ handoff[1].buf.size = 0
        /\ handoff[1].buf.file_size = 0
        /\ handoff[1].buf.unwritten = {}
        /\ handoff[1].buf.error = 0
        /\ ~handoff[1].buf.fragment
        /\ handoff[1].queue = "to_main"
        /\ visit.probes = 0

\* C10 witness: an empty file has been read undisturbed and its one buffer is
\* on the main queue.
C10_Witness ==
    /\ visit.reader = "file"
    /\ visit.outcome = "success"
    /\ visit.size0 = 0 /\ ~visit.changed /\ ~visit.faulted
    /\ Len(handoff) = 1
    /\ handoff[1].queue = "to_main"

\* the inodes the traversal has to read: regular files and pseudo files
FilesToRead ==
    {n \in DOMAIN inode :
        /\ ~inode[n].root_entry
        /\ IS_PSEUDO_PROCESS(inode[n]) \/ inode[n].st_mode = "S_IFREG"}

\* every file to read has been read by a call that forwarded a buffer
EveryFileProduced ==
    \A n \in FilesToRead : \E p \in past : p.ino = n /\ p.puts >= 1

\* C11: whatever fails on a file (open, read, fstat, a short read with the
\* size unchanged, the spawn or the exit of a generator), the traversal goes
\* on to its end, and by then every regular and pseudo file of the tree or of
\* the priority table has produced at least one buffer.
C11_TraversalCompletes == <>[](pc = "exit" /\ EveryFileProduced)

\* C11 witness: the traversal has ended after the first file it met failed
\* hard, and a file met later was read with success.
C11_Witness ==
    /\ pc = "exit"
    /\ \E p \in past : p.ino = "fileA" /\ p.outcome = "failed" /\ p.puts >= 1
    /\ \E p \in past : p.ino # "fileA" /\ p.outcome = "success" /\ p.puts >= 1

\* the sequence number of the reader when the call in progress began
SeqAtEntry == Len(order) - Len(handoff)

\* C12: every buffer marked hard failure or content-changed-retry is
\* forwarded with the sequence number it got when it was acquired, exactly
\* once, on the main queue and with the fragment flag off, whatever the flag
\* held before; no such buffer goes back to the pool, and the reader never
\* holds on to a buffer it has marked.
C12_ErrorBuffersForwarded ==
    /\ \A k \in 1 .. Len(handoff) :
          LET h == handoff[k] IN
          h.given.error # 0 =>
              /\ h.queue = "to_main"
              /\ ~h.buf.fragment
              /\ h.buf.error = h.given.error
              /\ h.buf.sequence = SeqAtEntry + h.buf.id - 1
              /\ \A j \in 1 .. Len(handoff) :
                    j # k => handoff[j].buf.id # h.buf.id
              /\ \A r \in 1 .. Len(released) : released[r].id # h.buf.id
    /\ \A r \in 1 .. Len(released) : released[r].error = 0
    /\ file_buffer.error = 0 /\ prev_buffer.error = 0

\* C12 witness: a regular file has been given up with a hard failure after a
\* retry, and the pool had left the fragment flag set in the retry buffer.
C12_Witness ==
    /\ visit.reader = "file"
    /\ visit.outcome = "failed"
    /\ Last(handoff).given.error = 1
    /\ \E k \in 1 .. Len(handoff) :
          /\ handoff[k].given.error = 2
          /\ handoff[k].given.fragment
          /\ ~handoff[k].buf.fragment
          /\ handoff[k].queue = "to_main"

\* the puts of attempt a of the call in progress
PutsOf(a) == {k \in 1 .. Len(handoff) : handoff[k].attempt = a}

\* C13 as stated: every buffer forwarded in an attempt that was abandoned
\* because the fresh stat showed another size is marked
\* content-changed-retry, the full blocks forwarded before the mismatch was
\* detected included.
C13_AllOfAttemptMarked ==
    \A k \in 1 .. Len(handoff) :
        (\E j \in PutsOf(handoff[k].attempt) : handoff[j].buf.error = 2) =>
            handoff[k].buf.error = 2

\* C13 as the code has it: of the buffers of an abandoned attempt only the
\* last one, the buffer at hand when the mismatch was detected, is marked
\* content-changed-retry; the full non-tail blocks forwarded before it went
\* to block compression with error none, and each of them is followed, later
\* in the handoff order, by the retry buffer of its attempt.
C13_LastOfAttemptMarked ==
    /\ visit.reader = "file" =>
          \A k \in 1 .. Len(handoff) :
              LET h == handoff[k] IN
              /\ h.buf.error = 2 =>
                    /\ \A j \in PutsOf(h.attempt) : j <= k
                    /\ \A j \in PutsOf(h.attempt) \ {k} :
                          /\ handoff[j].buf.error = 0
                          /\ handoff[j].buf.size = block_size
                          /\ handoff[j].queue = "to_deflate"
              /\ (h.buf.error = 0 /\ h.attempt < att.n) =>
                    \E j \in PutsOf(h.attempt) : j > k /\ handoff[j].buf.error = 2
    /\ (pc = "again" /\ att.n >= 1) => Last(handoff).attempt = att.n

\* C13 witness: an attempt was abandoned after a full block had been
\* forwarded to block compression with error none; the retry buffer followed.
C13_Witness ==
    /\ visit.reader = "file"
    /\ \E j, k \in 1 .. Len(handoff) :
          /\ j < k
          /\ handoff[j].attempt = handoff[k].attempt
          /\ handoff[j].buf.error = 0 /\ handoff[j].queue = "to_deflate"
          /\ handoff[k].buf.error = 2 /\ handoff[k].queue = "to_main"

\* the reader is inside reader_read_file
InCall ==
    pc \in {"rf_entry", "again", "rf_open_failed", "rf_get", "rf_read",
            "rf_probe", "rf_done", "restat", "read_err", "read_err2"}

\* how many times the file's size has changed since the call began
Changes == writes - visit.writes0

\* C14: reader_read_file returns once the file stops changing: every call
\* ends, with a successful terminal buffer or a hard-failure buffer as its
\* last put; every restart follows an fstat whose size differs from the size
\* just tried, so that the attempts of a call are at most one more than the
\* changes of the file's size during the call.
C14_RetryLoopTerminates ==
    /\ [](/\ (pc = "again" /\ att.n >= 1) =>
                inode[dir_ent].st_size # read_size
          /\ InCall => att.n <= Changes + 1
          /\ (visit.reader = "file" /\ Returned) =>
                /\ Last(handoff).buf.error = IF visit.outcome = "success"
                                               THEN 0 ELSE 1
                /\ att.n <= Changes + 1)
    /\ (InCall ~> ~InCall)

\* C14 witness: a file changed twice while it was read, was tried three
\* times, and the call has returned with success.
C14_Witness ==
    /\ visit.reader = "file"
    /\ visit.outcome = "success"
    /\ Changes = 2
    /\ att.n = 3

\* the puts of the call in progress that carry a hard failure
HardFailures == {k \in 1 .. Len(handoff) : handoff[k].buf.error = 1}

\* C15: a hard failure of a regular file (open error, read error, failed
\* fstat, or a mismatch whose fresh stat equals the size tried) forwards
\* exactly one buffer marked hard failure, the last buffer of the file; the
\* call returns with the file closed and no buffer held, no restart follows,
\* and the inode's recorded size is still the size the failing attempt tried.
C15_HardFailureEndsFile ==
    /\ (visit.reader = "file" /\ visit.outcome = "failed") =>
          /\ HardFailures = {Len(handoff)}
          /\ ~InCall
          /\ file = Closed
          /\ file_buffer = NoBuffer
          /\ Last(handoff).attempt = att.n
          /\ inode[visit.ino].st_size = Last(handoff).rsize
          /\ (\A k \in 1 .. Len(handoff) : handoff[k].buf.error # 2) =>
                inode[visit.ino].st_size = visit.size0
    /\ (visit.reader = "file" /\ visit.outcome # "failed") => HardFailures = {}
    /\ (pc \in {"read_err", "read_err2"}) =>
          /\ inode[dir_ent].st_size = read_size
          /\ visit.outcome = "running"

\* C15 witness: a file was cut short and put back as it was while it was
\* read: the fresh stat equals the size tried, and the call has returned
\* with one hard-failure buffer after an error-free block, with no I/O fault.
C15_Witness ==
    /\ visit.reader = "file"
    /\ visit.outcome = "failed"
    /\ ~visit.faulted
    /\ Len(handoff) = 2
    /\ handoff[1].buf.error = 0
    /\ handoff[2].buf.error = 1
    /\ inode[visit.ino].st_size = visit.size0

\* the reader has done nothing yet: no buffer acquired, no sequence number
\* issued, nothing forwarded, no file entered
Idle ==
    /\ seq = 0
    /\ nbuf = 0
    /\ order = <<>> /\ handoff = <<>>
    /\ file_buffer = NoBuffer /\ prev_buffer = NoBuffer
    /\ visit = NoVisit
    /\ file = Closed

\* C16: in both modes the reader acquires no buffer, issues no sequence
\* number and forwards nothing before its queue_get on to_reader has returned
\* the start signal: until then it waits at its first line, idle, and once it
\* is past that line the signal has been sent and taken from the queue.
C16_StartSignalFirst ==
    /\ pc = "reader" => Idle
    /\ ~started => (pc = "reader" /\ to_reader = <<>>)
    /\ pc # "reader" => (started /\ to_reader = <<>>)
    /\ ~Idle => (started /\ to_reader = <<>> /\ pc # "reader")

\* C16 witness: in priority mode the reader has taken the start signal and
\* holds the first buffer it acquired, number 0, with nothing forwarded yet.
C16_Witness ==
    /\ sorted
    /\ started /\ to_reader = <<>>
    /\ nbuf = 1 /\ seq = 1
    /\ file_buffer.id = 1 /\ file_buffer.sequence = 0
    /\ order = <<>>

RECURSIVE PriorityFrom(_)
\* the entries of the priority table from priority i down to 0, each list in
\* its own order
PriorityFrom(i) ==
    IF i < 0 THEN <<>> ELSE priority_list(i) \o PriorityFrom(i - 1)

PriorityOrder == PriorityFrom(MaxPriority)

\* the entries of the table that lie before the position of the loop
EntriesBefore ==
    Len(PriorityOrder) - Len(PriorityFrom(prio.i)) + (prio.entry - 1)

\* the reader is inside reader_read_process
InProcessCall ==
    pc \in {"rp_exec", "rp_spawn_failed", "rp_get", "rp_read", "rp_wait",
            "rp_read_err"}

\* C17: in priority mode the n-th call is a call of reader_read_file on the
\* n-th entry of the table taken from the highest priority down to 0, each
\* list in its order; every buffer of an earlier entry has a lower sequence
\* number than any buffer of a later one; and the reader never recurses into
\* a directory nor calls reader_read_process.
C17_PriorityOrder ==
    sorted =>
        /\ stack = <<>>
        /\ pc # "scan" /\ ~InProcessCall
        /\ visit.reader \in {"none", "file"}
        /\ \A p \in past : p.ino = PriorityOrder[p.nth]
        /\ visit.nth >= 1 => visit.ino = PriorityOrder[visit.nth]
        /\ pc \notin {"reader", "exit"} => visit.nth = EntriesBefore
        /\ pc = "exit" => visit.nth = Len(PriorityOrder)
        /\ \A p, q \in past : p.nth < q.nth => p.first + p.puts <= q.first
        /\ \A p \in past : \A k \in 1 .. Len(handoff) :
              p.nth < visit.nth => handoff[k].buf.sequence >= p.first + p.puts

\* C17 witness: the priority run has ended: the file of the highest priority
\* got the first sequence numbers, the file of priority 0 the next ones,
\* after a retry, and the second entry of the first file was skipped.
C17_Witness ==
    /\ sorted
    /\ pc = "exit"
    /\ \E p, q, r \in past :
          /\ p.nth = 1 /\ p.ino = "fileB" /\ p.first = 0 /\ p.puts >= 2
          /\ q.nth = 2 /\ q.ino = "fileA" /\ q.first = p.puts /\ q.puts >= 2
          /\ r.nth = 3 /\ r.ino = "fileB" /\ r.outcome = "skipped"

\* C18: a pseudo file whose generator wrote N bytes and exited with status
\* 0, with no read error, yields max(1, ceil(N / block_size)) buffers that
\* carry the N bytes: all but the last are full blocks with file_size
\* unknown, the last has file_size N and the fragment flag is_fragment gives
\* size N; the inode's size is N; when N > 0 the buffer acquired for the
\* end-of-stream read went back to the pool and its number was taken back,
\* and when N = 0 no buffer went back.
C18_PseudoSuccess ==
    (visit.reader = "process" /\ visit.outcome = "success") =>
        LET N == visit.total
            ino == inode[visit.ino]
            n == Len(handoff)
        IN  /\ n = Max(1, CeilDiv(N, block_size))
            /\ \A k \in 1 .. n - 1 :
                  /\ handoff[k].buf.file_size = -1
                  /\ handoff[k].buf.size = block_size
                  /\ handoff[k].buf.error = 0
                  /\ ~handoff[k].buf.fragment
            /\ handoff[n].buf.file_size = N
            /\ handoff[n].buf.error = 0
            /\ handoff[n].buf.fragment <=> (~ino.no_fragments /\ Eligible(ino))
            /\ Payload(handoff, 0) = N
            /\ ino.st_size = N
            /\ IF N > 0
                 THEN /\ Len(released) = 1
                      /\ released[1].id = nbuf
                      /\ released[1].size = 0
                      /\ nbuf = n + 1
                 ELSE released = <<>> /\ nbuf = 1
            /\ seq = Len(order)

\* C18 witness: a generator wrote a block and a half and exited with status
\* 0: two buffers, the second a fragment, and the third buffer acquired went
\* back to the pool.
C18_Witness ==
    /\ visit.reader = "process"
    /\ visit.outcome = "success"
    /\ visit.total = block_size + 1
    /\ Len(handoff) = 2
    /\ handoff[2].buf.fragment /\ handoff[2].queue = "to_process_frag"
    /\ Len(released) = 1 /\ nbuf = 3

RECURSIVE FilesUnder(_, _)
\* the regular and pseudo files met from entry i of directory d on, depth
\* first, in list order, root-alias entries passed over
FilesUnder(d, i) ==
    IF i > Len(DirList(d)) THEN <<>>
    ELSE LET e == DirList(d)[i]
             here == IF inode[e].root_entry THEN <<>>
                     ELSE IF IS_PSEUDO_PROCESS(inode[e]) THEN <<e>>
                     ELSE IF inode[e].st_mode = "S_IFREG" THEN <<e>>
                     ELSE IF inode[e].st_mode = "S_IFDIR" THEN FilesUnder(e, 1)
                     ELSE <<>>
         IN  here \o FilesUnder(d, i + 1)

TreeOrder == FilesUnder(rootdir, 1)

Acquired == 1 .. nbuf
Forwarded == {handoff[k].given.id : k \in 1 .. Len(handoff)}
Returned2Pool == {released[r].id : r \in 1 .. Len(released)}
Held == {file_buffer.id, prev_buffer.id} \ {NoBuffer.id}

\* C20: every buffer a call acquires is, at every moment, held by the
\* reader, forwarded once or given back to the pool once, and only one of the
\* three; the reader holds at most one buffer inside reader_read_file and at
\* most two inside reader_read_process, and none when the call has returned,
\* so that every buffer acquired was then forwarded or given back.
C20_BufferAccounting ==
    /\ Held \cup Forwarded \cup Returned2Pool = Acquired
    /\ Held \cap Forwarded = {}
    /\ Held \cap Returned2Pool = {}
    /\ Forwarded \cap Returned2Pool = {}
    /\ Cardinality(Forwarded) = Len(handoff)
    /\ Cardinality(Returned2Pool) = Len(released)
    /\ (file_buffer # NoBuffer /\ prev_buffer # NoBuffer) =>
          file_buffer.id # prev_buffer.id
    /\ \A k \in 1 .. Len(handoff) : handoff[k].call = SeqAtEntry + k
    /\ InCall => (Cardinality(Held) <= 1 /\ prev_buffer = NoBuffer)
    /\ InProcessCall => Cardinality(Held) <= 2
    /\ (~InCall /\ ~InProcessCall) => Held = {}

\* C20 witness: inside reader_read_process the reader holds two buffers, the
\* last block read and the one just acquired, after it forwarded a block.
C20_Witness ==
    /\ pc = "rp_read"
    /\ Cardinality(Held) = 2
    /\ Forwarded = {1}
    /\ nbuf = 3

====
